---- MODULE Spec2Model ----
(***************************************************************************)
(* go-tilepacks: the build pipeline (cmd/build), the retrying fetcher, the *)
(* mbtiles writer (mbtilesOutputter) and the mbtiles reader.               *)
(*                                                                         *)
(* Three specifications share the writer operators:                        *)
(*   SpecBuild   one run of cmd/build: producer, workers, consumer         *)
(*   SpecWriter  sequences of Save / Close on one writer, with a reader    *)
(*   SpecFetch   one iteration of the worker loop on one request           *)
(***************************************************************************)
EXTENDS Integers, Sequences, FiniteSets, TLC

(***************************************************************************)
(* Bounds of the model.                                                    *)
(***************************************************************************)
\* number of jobs the generator enqueues in one build run
MaxJobs == 3
\* largest value of the -workers flag explored
MaxWorkers == 2
\* capacity of the jobs and of the results channel (2000 in the program)
QueueCap == 2
\* largest batchSize a writer is constructed with
MaxBatchSize == 2
\* number of Save calls in one writer session
MaxSaves == 3
\* length of the list of answers a fetch target is described by
MaxScript == 3
\* number of calls of one writer session in which the storage layer fails
MaxFaults == 1
MaxSources == 2

(***************************************************************************)
(* Program constants.                                                      *)
(***************************************************************************)
\* doHTTPWithRetry(client, httpReq, 30)
nRetries == 30

(***************************************************************************)
(* Tiles and tile content.                                                 *)
(***************************************************************************)
Pow2(z) == 2 ^ z

\* the zoom levels of the runs explored (-zooms 0,1)
Zooms == {0, 1}
MinZoom == CHOOSE z \in Zooms : \A y \in Zooms : z <= y
MaxZoom == CHOOSE z \in Zooms : \A y \in Zooms : z >= y

\* Tile: (Z, X, Y) with 0 <= X, Y < 2^Z
Tiles == UNION {[Z : {z}, X : 0 .. Pow2(z) - 1, Y : 0 .. Pow2(z) - 1] : z \in Zooms}

\* payloads an origin serves
Bodies == {"a", "b"}

\* []byte handed to Save: a payload, either as served or gzip-compressed
Datas == [enc : {"raw", "gz"}, body : Bodies]

\* md5.Sum + hex.EncodeToString: the hex digest of the bytes (no two values
\* of Datas collide under MD5)
TileID(data) == <<"md5", data.enc, data.body>>

\* the inversion one row off: 2^Z - Y
InvertedYOffByOne(tile) == Pow2(tile.Z) - tile.Y

\* invertedY := uint32(math.Pow(2.0, float64(tile.Z))) - 1 - tile.Y
\* (no wrap-around in uint32 for a tile with Y < 2^Z)
InvertedY(tile) == Pow2(tile.Z) - 1 - tile.Y

(***************************************************************************)
(* The archive: tables map, images, metadata; the view tiles.              *)
(***************************************************************************)
MetaNames == {"bounds", "center", "minzoom", "maxzoom"}

\* the statements of Save and Close at which a failure of the storage layer
\* is explored ("none": every statement does what SQLite specifies)
FailPoints == {"none", "schema", "begin", "images", "map", "commit"}

EmptyTables == [map |-> {}, images |-> {}]

\* INSERT OR REPLACE INTO images, unique index images_id on (tile_id)
UpsertImage(images, id, data) ==
    {r \in images : r.tile_id # id} \cup {[tile_id |-> id, tile_data |-> data]}

\* INSERT OR REPLACE INTO map, unique index map_index on
\* (zoom_level, tile_column, tile_row)
UpsertMap(map, z, x, row, id) ==
    {r \in map : ~(r.zoom_level = z /\ r.tile_column = x /\ r.tile_row = row)}
        \cup {[zoom_level |-> z, tile_column |-> x, tile_row |-> row, tile_id |-> id]}

\* CREATE VIEW tiles AS SELECT ... FROM map JOIN images ON images.tile_id = map.tile_id
TilesView(t) ==
    {[zoom_level |-> m.zoom_level, tile_column |-> m.tile_column,
      tile_row |-> m.tile_row, tile_data |-> i.tile_data] :
        <<m, i>> \in {p \in t.map \X t.images : p[1].tile_id = p[2].tile_id}}

\* the coordinates stored in a set of rows
Coords(rows) == {<<r.zoom_level, r.tile_column, r.tile_row>> : r \in rows}

(***************************************************************************)
(* mbtilesOutputter.                                                       *)
(***************************************************************************)
\* bounds of the archive: Min = (west, south), Max = (east, north)
ArchiveBounds == [Min |-> <<-2, -1>>, Max |-> <<2, 1>>]

\* NewMbtilesOutputter: the handle is open, no transaction, no schema yet.
\*   com: the committed tables of the archive file
\*   tx:  the tables as the open transaction sees them
NewMbtilesOutputter(batchSize, bounds, minZoom, maxZoom) ==
    [db |-> "open", txn |-> "nil", hasTiles |-> FALSE, batchCount |-> 0,
     batchSize |-> batchSize, bounds |-> bounds, minZoom |-> minZoom,
     maxZoom |-> maxZoom,
     schema |-> FALSE, metadata |-> {}, com |-> EmptyTables, tx |-> EmptyTables]

\* CreateTiles: no-op once hasTiles; otherwise run the schema script
CreateTiles(o, fail) ==
    IF o.hasTiles THEN [o |-> o, err |-> "nil"]
    ELSE IF o.db # "open" THEN [o |-> o, err |-> "closed"]
    ELSE IF fail = "schema" THEN [o |-> o, err |-> "schema"]
    ELSE [o |-> [o EXCEPT !.schema = TRUE, !.hasTiles = TRUE], err |-> "nil"]

\* the four rows AssignMetadata builds from bounds, minZoom, maxZoom
\* (%f of a coordinate, Itoa of a zoom; the center is kept as twice its value)
MetaValue(name, bounds, minZoom, maxZoom) ==
    CASE name = "bounds" ->
            <<"%f,%f,%f,%f", bounds.Min[1], bounds.Min[2], bounds.Max[1], bounds.Max[2]>>
      [] name = "center" ->
            <<"%f,%f/2", bounds.Min[1] + bounds.Max[1], bounds.Min[2] + bounds.Max[2]>>
      [] name = "minzoom" -> <<"%d", minZoom>>
      [] name = "maxzoom" -> <<"%d", maxZoom>>

\* the loop of AssignMetadata: one INSERT INTO metadata per key of the Go
\* map, in the unspecified order range visits them (rest: the keys not yet
\* visited), returning at the first statement that fails: the unique index
\* on name rejects a name that has a row. The result is the set of outcomes
\* the possible orders give; tried counts the INSERT statements executed.
RECURSIVE MetaInsertLoop(_, _, _, _)
MetaInsertLoop(o, md, rest, tried) ==
    IF rest = {} THEN {[md |-> md, err |-> "nil", tried |-> tried]}
    ELSE UNION {
           IF \E r \in md : r.name = name
           THEN {[md |-> md, err |-> "constraint", tried |-> tried + 1]}
           ELSE MetaInsertLoop(o,
                   md \cup {[name |-> name,
                             value |-> MetaValue(name, o.bounds, o.minZoom, o.maxZoom)]},
                   rest \ {name}, tried + 1)
           : name \in rest}

AssignMetadata(o) ==
    IF o.db # "open" THEN {[o |-> o, err |-> "closed", tried |-> 1]}
    ELSE {[o |-> [o EXCEPT !.metadata = r.md], err |-> r.err, tried |-> r.tried] :
             r \in MetaInsertLoop(o, o.metadata, MetaNames, 0)}

\* o.txn.Commit(): the transaction is finished whatever the outcome; on
\* success its writes become the committed tables
Commit(o, fail) ==
    IF o.txn # "open" THEN [o |-> o, err |-> "txdone"]
    ELSE IF fail = "commit" THEN [o |-> [o EXCEPT !.txn = "done"], err |-> "commit"]
    ELSE [o |-> [o EXCEPT !.txn = "done", !.com = o.tx], err |-> "nil"]

\* Save that returns after the images statement, without the map statement
SaveTileSkipsMap(o, tile, data, fail) ==
    LET o1 == IF o.txn = "nil" /\ fail # "begin" /\ o.db = "open"
              THEN [o EXCEPT !.txn = "open", !.tx = o.com] ELSE o
        tileID == TileID(data)
        o2 == [o1 EXCEPT !.tx.images = UpsertImage(o1.tx.images, tileID, data)]
        o4 == [o2 EXCEPT !.batchCount = o2.batchCount + 1]
    IN  IF o.txn = "nil" /\ o.db # "open" THEN [o |-> o, err |-> "closed"]
        ELSE IF o.txn = "nil" /\ fail = "begin" THEN [o |-> o, err |-> "begin"]
        ELSE IF o1.txn # "open" THEN [o |-> o1, err |-> "txdone"]
        ELSE IF fail = "images" THEN [o |-> o1, err |-> "images"]
        ELSE IF o4.batchCount % o4.batchSize = 0
             THEN LET c == Commit(o4, fail)
                  IN  IF c.err # "nil" THEN c
                      ELSE [o |-> [c.o EXCEPT !.batchCount = 0, !.txn = "nil"],
                            err |-> "nil"]
        ELSE [o |-> o4, err |-> "nil"]

\* Save that writes the map row before the images row
SaveTileMapFirst(o, tile, data, fail) ==
    LET o1 == IF o.txn = "nil" /\ fail # "begin" /\ o.db = "open"
              THEN [o EXCEPT !.txn = "open", !.tx = o.com] ELSE o
        tileID == TileID(data)
        o2 == [o1 EXCEPT !.tx.map =
                  UpsertMap(o1.tx.map, tile.Z, tile.X, InvertedY(tile), tileID)]
        o3 == [o2 EXCEPT !.tx.images = UpsertImage(o2.tx.images, tileID, data)]
        o4 == [o3 EXCEPT !.batchCount = o3.batchCount + 1]
    IN  IF o.txn = "nil" /\ o.db # "open" THEN [o |-> o, err |-> "closed"]
        ELSE IF o.txn = "nil" /\ fail = "begin" THEN [o |-> o, err |-> "begin"]
        ELSE IF o1.txn # "open" THEN [o |-> o1, err |-> "txdone"]
        ELSE IF fail = "map" THEN [o |-> o1, err |-> "map"]
        ELSE IF fail = "images" THEN [o |-> o2, err |-> "images"]
        ELSE IF o4.batchCount % o4.batchSize = 0
             THEN LET c == Commit(o4, fail)
                  IN  IF c.err # "nil" THEN c
                      ELSE [o |-> [c.o EXCEPT !.batchCount = 0, !.txn = "nil"],
                            err |-> "nil"]
        ELSE [o |-> o4, err |-> "nil"]

\* Save, from "if o.txn == nil" on
SaveTile(o, tile, data, fail) ==
    LET o1 == IF o.txn = "nil" /\ fail # "begin" /\ o.db = "open"
              THEN [o EXCEPT !.txn = "open", !.tx = o.com] ELSE o
        tileID == TileID(data)
        o2 == [o1 EXCEPT !.tx.images = UpsertImage(o1.tx.images, tileID, data)]
        o3 == [o2 EXCEPT !.tx.map =
                  UpsertMap(o2.tx.map, tile.Z, tile.X, InvertedY(tile), tileID)]
        o4 == [o3 EXCEPT !.batchCount = o3.batchCount + 1]
    IN  IF o.txn = "nil" /\ o.db # "open" THEN [o |-> o, err |-> "closed"]
        ELSE IF o.txn = "nil" /\ fail = "begin" THEN [o |-> o, err |-> "begin"]
        ELSE IF o1.txn # "open" THEN [o |-> o1, err |-> "txdone"]
        ELSE IF fail = "images" THEN [o |-> o1, err |-> "images"]
        ELSE IF fail = "map" THEN [o |-> o2, err |-> "map"]
        ELSE IF o4.batchCount % o4.batchSize = 0
             THEN LET c == Commit(o4, fail)
                  IN  IF c.err # "nil" THEN c
                      ELSE [o |-> [c.o EXCEPT !.batchCount = 0, !.txn = "nil"],
                            err |-> "nil"]
        ELSE [o |-> o4, err |-> "nil"]

\* Save(tile, data): the set of its possible outcomes when the storage layer
\* fails at statement fail. step names the part of Save that returned the
\* error, metaTried the INSERT INTO metadata statements it executed.
Save(o, tile, data, fail) ==
    LET c == CreateTiles(o, fail)
    IN  IF c.err # "nil"
        THEN {[o |-> c.o, err |-> c.err, step |-> "schema", metaTried |-> 0]}
        ELSE {IF m.err # "nil"
              THEN [o |-> m.o, err |-> m.err, step |-> "metadata", metaTried |-> m.tried]
              ELSE LET s == SaveTile(m.o, tile, data, fail)
                   IN  [o |-> s.o, err |-> s.err,
                        step |-> IF s.err = "nil" THEN "none" ELSE "tile",
                        metaTried |-> m.tried]
              : m \in AssignMetadata(c.o)}

\* Close: commit the transaction if o.txn != nil, close the handle; err2 of
\* the handle replaces err of the commit
Close(o, fail, failClose) ==
    LET c == IF o.txn # "nil" THEN Commit(o, fail) ELSE [o |-> o, err |-> "nil"]
        err2 == IF failClose THEN "dbclose" ELSE "nil"
    IN  [o |-> [c.o EXCEPT !.db = "closed"],
         err |-> IF err2 # "nil" THEN err2 ELSE c.err,
         errCommit |-> c.err, errClose |-> err2]

(***************************************************************************)
(* mbtilesReader.                                                          *)
(***************************************************************************)
NoData == [enc |-> "none", body |-> "none"]

\* GetTile: SELECT tile_data FROM tiles WHERE zoom_level=? AND tile_column=?
\* AND tile_row=? LIMIT 1 with (tile.Z, tile.X, tile.Y); ErrNoRows gives a
\* TileData without Data. A reader sees the committed tables.
GetTileRows(o, tile) ==
    {r \in TilesView(o.com) : r.zoom_level = tile.Z /\ r.tile_column = tile.X
                               /\ r.tile_row = tile.Y}

GetTile(o, tile) ==
    {[Tile |-> tile, Data |-> r.tile_data] : r \in GetTileRows(o, tile)}
    \cup (IF GetTileRows(o, tile) = {} THEN {[Tile |-> tile, Data |-> NoData]} ELSE {})

(***************************************************************************)
(* The retrying fetcher and the body of the worker loop.                   *)
(***************************************************************************)
\* what one client.Do gives: a status code, or NetErr when it returns an error
NetErr == 0
Outcomes == {200, 404, 500, 503, NetErr}

\* a fetch target: its answers to the first attempts, the last one repeated
\* for every later attempt
ShortScripts == UNION {[1 .. n -> Outcomes] : n \in 1 .. MaxScript}

\* a target that answers status on its first k attempts and then last
RunScript(status, k, last) == [i \in 1 .. k + 1 |-> IF i <= k THEN status ELSE last]

Scripts == ShortScripts \cup
    {RunScript(st, k, last) : st \in Outcomes \ {200, NetErr}, k \in 0 .. nRetries,
                              last \in Outcomes}

\* a target that gives the same answer to every attempt
SteadyScripts == [1 .. 1 -> Outcomes]

Resp(script, attempt) ==
    script[IF attempt <= Len(script) THEN attempt ELSE Len(script)]

\* time.Duration counts nanoseconds in an int64; every value the variable
\* sleep takes is a whole number of milliseconds and is held here in
\* milliseconds, an untyped constant compared with it is a number of
\* nanoseconds.
NsPerMs == 1000000
InitialSleepMs == 500
SleepFactor == 2
SleepLimitNs == 30
SleepResetMs == 30000

\* sleep *= 2.0; if sleep > 30.0 { sleep = 30 * time.Second }
\* (for a whole number a of milliseconds, a * NsPerMs > c  <=>  a > c \div NsPerMs)
NextSleep(sleep) ==
    LET doubled == sleep * SleepFactor
    IN  IF doubled > SleepLimitNs \div NsPerMs THEN SleepResetMs ELSE doubled

\* the loop of doHTTPWithRetry, i = 0 .. n-1.
\*   attempts: calls of client.Do;  waits: the arguments of the calls of
\*   time.Sleep, in milliseconds;  slept: their number;
\*   unclosed: responses received whose body nobody closes
RECURSIVE RetryLoop(_, _, _, _, _, _)
RetryLoop(script, n, i, sleep, waits, unclosed) ==
    IF i >= n
    THEN [ok |-> FALSE, err |-> "ran out of HTTP GET retries", attempts |-> i,
          slept |-> Len(waits), waits |-> waits, unclosed |-> unclosed]
    ELSE LET status == Resp(script, i + 1)
         IN  IF status = NetErr
             THEN [ok |-> FALSE, err |-> "client.Do", attempts |-> i + 1,
                   slept |-> Len(waits), waits |-> waits, unclosed |-> unclosed]
             ELSE IF status = 200
             THEN [ok |-> TRUE, err |-> "nil", attempts |-> i + 1,
                   slept |-> Len(waits), waits |-> waits, unclosed |-> unclosed]
             ELSE IF status > 500 /\ status < 600
             THEN RetryLoop(script, n, i + 1, NextSleep(sleep),
                            Append(waits, sleep), unclosed + 1)
             ELSE RetryLoop(script, n, i + 1, sleep, waits, unclosed + 1)

doHTTPWithRetryOneShort(script, n) ==
    RetryLoop(script, n - 1, 0, InitialSleepMs, <<>>, 0)

doHTTPWithRetry(script, n) ==
    RetryLoop(script, n, 0, InitialSleepMs, <<>>, 0)

\* what doHTTPWithRetry(client, httpReq, 30) returns on the steady targets
SteadyFetch == {doHTTPWithRetry(script, nRetries) : script \in SteadyScripts}

\* the Content-Encoding an origin answers with: gzip only when the request
\* carries Accept-Encoding: gzip (the transport has DisableCompression)
Encodings(gzip) == IF gzip THEN {"gzip", ""} ELSE {""}

\* the bytes of a 200 response as they arrive
WireData(ce, body) == [enc |-> IF ce = "gzip" THEN "gz" ELSE "raw", body |-> body]

\* one iteration of "for request := range jobs" in httpWorker, after the
\* receive: send says whether a TileResponse goes to results, log is the
\* message logged when it does not.
\*   urlOK    http.NewRequest accepts the URL
\*   gzip     request.Gzip
\*   r        what doHTTPWithRetry(client, httpReq, 30) returns
\*   ce       Content-Encoding of the 200 response
\*   bodyErr  reading resp.Body fails
httpWorkerBody(urlOK, gzip, r, ce, bodyErr, body) ==
    LET none == [send |-> FALSE, data |-> NoData, attempts |-> 0, slept |-> 0,
                 waits |-> <<>>, unclosed |-> 0,
                 log |-> "Unable to create HTTP request"]
        fetched == [none EXCEPT !.attempts = r.attempts, !.slept = r.slept,
                                !.waits = r.waits, !.unclosed = r.unclosed]
    IN  IF ~urlOK THEN none
        ELSE IF ~r.ok THEN [fetched EXCEPT !.log = "Skipping"]
        ELSE IF gzip /\ ce # "gzip" /\ bodyErr
             THEN [fetched EXCEPT !.log = "Couldn't copy to gzipper",
                                  !.unclosed = r.unclosed + 1]
        ELSE IF bodyErr
             THEN [fetched EXCEPT !.log = "Error copying bytes from HTTP response"]
        ELSE [fetched EXCEPT !.send = TRUE, !.log = "",
                  !.data = IF gzip THEN [enc |-> "gz", body |-> body]
                           ELSE WireData(ce, body)]

(***************************************************************************)
(* State.                                                                  *)
(***************************************************************************)
VARIABLES
    cfg,            \* the flags of the run: workers, gzip, urlOK, invertedY
    o,              \* the mbtilesOutputter and the archive behind it
    mainpc,         \* where main is, from "Add tile request jobs" on
    nextJob,        \* index of the next tile GenerateTiles hands to consumer
    jobs,           \* chan *TileRequest: the buffered requests
    jobsClosed,     \* close(jobs) happened
    results,        \* chan *TileResponse: the buffered responses
    resultsClosed,  \* close(results) happened
    workerWG,       \* counter of workerWG
    resultWG,       \* counter of resultWG
    wpc,            \* where each httpWorker is
    wjob,           \* the request each httpWorker holds
    wdata,          \* bodyData of each httpWorker
    cpc,            \* where processResults is
    hist,           \* what happened to each job, and the calls of the writer
    wh,             \* the calls made on the writer in a writer session
    rd,             \* the last GetTile of the reader
    fx,             \* one iteration of the worker loop: inputs and outcome
    mg              \* one run of cmd/merge: inputs, position and history

pvars == <<mainpc, nextJob, jobs, jobsClosed, results, resultsClosed, workerWG,
           resultWG, wpc, wjob, wdata, cpc, hist>>
vars == <<cfg, o, mainpc, nextJob, jobs, jobsClosed, results, resultsClosed,
          workerWG, resultWG, wpc, wjob, wdata, cpc, hist, wh, rd, fx, mg>>

\* flags of cmd/build: -workers, -gzip, -url (whether http.NewRequest accepts
\* the URLs made from it), -inverted-y
Configs == [workers : 1 .. MaxWorkers, gzip : BOOLEAN, urlOK : BOOLEAN,
            invertedY : BOOLEAN]

NoTile == [Z |-> 0, X |-> 0, Y |-> -1]
NoCall == [tile |-> NoTile, data |-> NoData, err |-> "-", step |-> "-", metaTried |-> 0]
NoRead == [tile |-> NoTile, data |-> NoData, done |-> FALSE]
NoFetch == [pc |-> "off"]
NoOut == [send |-> FALSE, data |-> NoData, attempts |-> 0, slept |-> 0,
          waits |-> <<>>, unclosed |-> 0, log |-> "-"]

\* the tables a statement of the writer sees
CurTables(w) == IF w.txn = "open" THEN w.tx ELSE w.com

\* errors that come from a failure of the storage layer
StorageErrs == {"schema", "begin", "images", "map", "commit", "dbclose"}

\* no build run in this specification
PipelineOff ==
    /\ mainpc = "off" /\ nextJob = 0 /\ jobs = <<>> /\ jobsClosed = FALSE
    /\ results = <<>> /\ resultsClosed = FALSE /\ workerWG = 0 /\ resultWG = 0
    /\ wpc = <<>> /\ wjob = <<>> /\ wdata = <<>> /\ cpc = "off"
    /\ hist = [off |-> TRUE]

NoMerge == [pc |-> "off"]

NoSession ==
    [n |-> 0, closes |-> 0, first |-> NoCall, firstTables |-> EmptyTables,
     last |-> NoCall, same |-> TRUE, faulty |-> FALSE, faults |-> 0,
     saved |-> [t \in Tiles |-> NoData], metaSaves |-> 0, closeErr |-> "-",
     closeCommit |-> "-", closeDb |-> "-", closeTxn |-> "-"]

(***************************************************************************)
(* SpecWriter: Save and Close called on one writer, GetTile on a reader of *)
(* the same archive.                                                       *)
(***************************************************************************)
\* the contents saved in a writer session: the payloads, as served
SessionDatas == {d \in Datas : d.enc = "raw"}

InitWriter ==
    /\ cfg \in {c \in Configs : c.workers = 1 /\ ~c.gzip /\ c.urlOK}
    /\ \E b \in 1 .. MaxBatchSize : o = NewMbtilesOutputter(b, ArchiveBounds, MinZoom, MaxZoom)
    /\ PipelineOff
    /\ wh = NoSession
    /\ rd = NoRead
    /\ fx = NoFetch
    /\ mg = NoMerge

\* the failures the storage layer may still produce in this session
FaultsLeft ==
    IF wh.faulty /\ wh.faults < MaxFaults THEN FailPoints \cup {"dbclose"} ELSE {"none"}

\* one call of Save
WriterSave ==
    /\ wh.n < MaxSaves
    /\ \E tile \in Tiles, data \in SessionDatas, fail \in FaultsLeft :
         \E r \in Save(o, tile, data, fail) :
            LET call == [tile |-> tile, data |-> data, err |-> r.err,
                         step |-> r.step, metaTried |-> r.metaTried]
            IN  /\ o' = r.o
                /\ wh' = [wh EXCEPT
                            !.n = wh.n + 1,
                            !.first = IF wh.n = 0 THEN call ELSE wh.first,
                            !.firstTables = IF wh.n = 0 THEN CurTables(r.o)
                                            ELSE wh.firstTables,
                            !.last = call,
                            !.same = wh.same /\ (wh.n = 0 \/
                                        (tile = wh.first.tile /\ data = wh.first.data)),
                            !.faults = wh.faults + (IF r.err \in StorageErrs THEN 1 ELSE 0),
                            !.saved = IF r.err = "nil"
                                      THEN [wh.saved EXCEPT ![tile] = data]
                                      ELSE wh.saved,
                            !.metaSaves = wh.metaSaves +
                                (IF r.o.metadata # o.metadata THEN 1 ELSE 0)]
    /\ rd' = NoRead
    /\ UNCHANGED <<cfg, fx>>
    /\ UNCHANGED <<pvars, mg>>

\* the call of Close that ends the session
WriterClose ==
    /\ wh.closes = 0
    /\ \E fail \in FaultsLeft \cap {"none", "commit"},
          failClose \in {f \in BOOLEAN : f => "dbclose" \in FaultsLeft} :
         LET r == Close(o, fail, failClose)
         IN  /\ o' = r.o
             /\ wh' = [wh EXCEPT !.closes = wh.closes + 1, !.closeErr = r.err,
                          !.closeCommit = r.errCommit, !.closeDb = r.errClose,
                          !.closeTxn = o.txn,
                          !.faults = wh.faults +
                                (IF r.errCommit \in StorageErrs \/ r.errClose \in StorageErrs
                                 THEN 1 ELSE 0)]
    /\ rd' = NoRead
    /\ UNCHANGED <<cfg, fx>>
    /\ UNCHANGED <<pvars, mg>>

\* a reader opened on the archive the writer has closed looks one tile up
ReaderGetTile ==
    /\ o.schema
    /\ o.db = "closed"
    /\ \E tile \in Tiles :
         \E g \in GetTile(o, tile) :
            rd' = [tile |-> g.Tile, data |-> g.Data, done |-> TRUE]
    /\ UNCHANGED <<cfg, o, wh, fx>>
    /\ UNCHANGED <<pvars, mg>>

NextWriter == WriterSave \/ WriterClose \/ ReaderGetTile

SpecWriter == InitWriter /\ [][NextWriter]_vars

\* the same session on a storage layer of which up to MaxFaults calls fail
InitFaulty ==
    /\ cfg \in {c \in Configs : c.workers = 1 /\ ~c.gzip /\ c.urlOK /\ ~c.invertedY}
    /\ \E b \in 1 .. MaxBatchSize : o = NewMbtilesOutputter(b, ArchiveBounds, MinZoom, MaxZoom)
    /\ PipelineOff
    /\ wh = [NoSession EXCEPT !.faulty = TRUE]
    /\ rd = NoRead
    /\ fx = NoFetch
    /\ mg = NoMerge

\* the calls of the writer alone: no reader is opened on the archive
NextFaulty == WriterSave \/ WriterClose

SpecFaulty == InitFaulty /\ [][NextFaulty]_vars

(***************************************************************************)
(* SpecFetch: one iteration of the loop of httpWorker on one request.      *)
(***************************************************************************)
InitFetch ==
    /\ cfg \in {c \in Configs : c.workers = 1 /\ ~c.invertedY}
    /\ o = NewMbtilesOutputter(1, ArchiveBounds, MinZoom, MaxZoom)
    /\ PipelineOff
    /\ wh = NoSession
    /\ rd = NoRead
    /\ \E script \in Scripts, ce \in Encodings(cfg.gzip), bodyErr \in BOOLEAN,
          body \in Bodies :
         fx = [pc |-> "request", script |-> script, ce |-> ce, bodyErr |-> bodyErr,
               body |-> body,
               out |-> NoOut]
    /\ mg = NoMerge

\* the iteration runs from the receive to the send or the continue
FetchIteration ==
    /\ fx.pc = "request"
    /\ fx' = [fx EXCEPT !.pc = "done",
                 !.out = httpWorkerBody(cfg.urlOK, cfg.gzip,
                                        doHTTPWithRetry(fx.script, nRetries),
                                        fx.ce, fx.bodyErr, fx.body)]
    /\ UNCHANGED <<cfg, o, wh, rd>>
    /\ UNCHANGED <<pvars, mg>>

NextFetch == FetchIteration

SpecFetch == InitFetch /\ [][NextFetch]_vars

(***************************************************************************)
(* SpecBuild: one run of cmd/build, from the start of the goroutines to    *)
(* the return of main.                                                     *)
(***************************************************************************)
Jobs == 1 .. MaxJobs

\* GenerateTiles: ascending zoom, then row by row; the j-th tile it hands to
\* the consumer callback (a zoom list that repeats gives the tiles again)
GenOrder ==
    <<[Z |-> 0, X |-> 0, Y |-> 0], [Z |-> 1, X |-> 0, Y |-> 0], [Z |-> 1, X |-> 1, Y |-> 0],
      [Z |-> 1, X |-> 0, Y |-> 1], [Z |-> 1, X |-> 1, Y |-> 1]>>
GenTile(j) == GenOrder[((j - 1) % Len(GenOrder)) + 1]

Workers == 1 .. cfg.workers

\* the payload the origin holds for the j-th tile (every other tile has the
\* same bytes, as repeated ocean tiles do)
OriginBody(j) == IF j % 2 = 1 THEN "a" ELSE "b"

InitBuild ==
    /\ cfg \in {c \in Configs : ~c.invertedY}
    /\ o = CreateTiles(NewMbtilesOutputter(MaxBatchSize, ArchiveBounds, MinZoom, MaxZoom),
                       "none").o
    /\ mainpc = "generate"
    /\ nextJob = 1
    /\ jobs = <<>> /\ jobsClosed = FALSE
    /\ results = <<>> /\ resultsClosed = FALSE
    /\ workerWG = cfg.workers
    /\ resultWG = 1
    /\ wpc = [w \in Workers |-> "recv"]
    /\ wjob = [w \in Workers |-> 0]
    /\ wdata = [w \in Workers |-> NoData]
    /\ cpc = "recv"
    /\ hist = [taken |-> [j \in Jobs |-> 0], drops |-> [j \in Jobs |-> 0],
               saves |-> [j \in Jobs |-> 0], closes |-> 0,
               faults |-> 0, afterFault |-> 0]
    /\ wh = NoSession
    /\ rd = NoRead
    /\ fx = NoFetch
    /\ mg = NoMerge

\* the send on a channel that never blocks
MainEnqueueUnbounded ==
    /\ mainpc = "generate"
    /\ nextJob <= MaxJobs
    /\ jobs' = Append(jobs, nextJob)
    /\ nextJob' = nextJob + 1
    /\ UNCHANGED <<cfg, o, mainpc, jobsClosed, results, resultsClosed, workerWG,
                   resultWG, wpc, wjob, wdata, cpc, hist, wh, rd, fx, mg>>

\* the consumer callback of GenerateTiles: jobs <- &TileRequest{...}
MainEnqueue ==
    /\ mainpc = "generate"
    /\ nextJob <= MaxJobs
    /\ Len(jobs) < QueueCap
    /\ jobs' = Append(jobs, nextJob)
    /\ nextJob' = nextJob + 1
    /\ UNCHANGED <<cfg, o, mainpc, jobsClosed, results, resultsClosed, workerWG,
                   resultWG, wpc, wjob, wdata, cpc, hist, wh, rd, fx, mg>>

\* GenerateTiles returns; close(jobs)
MainCloseJobs ==
    /\ mainpc = "generate"
    /\ nextJob > MaxJobs
    /\ jobsClosed' = TRUE
    /\ mainpc' = "waitWorkers"
    /\ UNCHANGED <<cfg, o, nextJob, jobs, results, resultsClosed, workerWG,
                   resultWG, wpc, wjob, wdata, cpc, hist, wh, rd, fx, mg>>

\* close(results) without workerWG.Wait()
MainCloseResultsNoWait ==
    /\ mainpc = "waitWorkers"
    /\ resultsClosed' = TRUE
    /\ mainpc' = "waitResults"
    /\ UNCHANGED <<cfg, o, nextJob, jobs, jobsClosed, results, workerWG,
                   resultWG, wpc, wjob, wdata, cpc, hist, wh, rd, fx, mg>>

\* workerWG.Wait() returns; close(results)
MainCloseResults ==
    /\ mainpc = "waitWorkers"
    /\ workerWG = 0
    /\ resultsClosed' = TRUE
    /\ mainpc' = "waitResults"
    /\ UNCHANGED <<cfg, o, nextJob, jobs, jobsClosed, results, workerWG,
                   resultWG, wpc, wjob, wdata, cpc, hist, wh, rd, fx, mg>>

\* resultWG.Wait() returns; main returns
MainExit ==
    /\ mainpc = "waitResults"
    /\ resultWG = 0
    /\ mainpc' = "done"
    /\ UNCHANGED <<cfg, o, nextJob, jobs, jobsClosed, results, resultsClosed,
                   workerWG, resultWG, wpc, wjob, wdata, cpc, hist, wh, rd, fx, mg>>

\* httpWorker: "for request := range jobs" receives a request
WorkerRecv(w) ==
    /\ wpc[w] = "recv"
    /\ jobs # <<>>
    /\ wjob' = [wjob EXCEPT ![w] = Head(jobs)]
    /\ jobs' = Tail(jobs)
    /\ wpc' = [wpc EXCEPT ![w] = "fetch"]
    /\ hist' = [hist EXCEPT !.taken[Head(jobs)] = @ + 1]
    /\ UNCHANGED <<cfg, o, mainpc, nextJob, jobsClosed, results, resultsClosed,
                   workerWG, resultWG, wdata, cpc, wh, rd, fx, mg>>

\* the worker returns without wg.Done()
WorkerExitNoDone(w) ==
    /\ wpc[w] = "recv"
    /\ jobs = <<>>
    /\ jobsClosed
    /\ wpc' = [wpc EXCEPT ![w] = "done"]
    /\ UNCHANGED <<cfg, o, mainpc, nextJob, jobs, jobsClosed, results, resultsClosed,
                   workerWG, resultWG, wjob, wdata, cpc, hist, wh, rd, fx, mg>>

\* httpWorker: the range loop ends on the closed, empty channel; the
\* deferred wg.Done() runs
WorkerExit(w) ==
    /\ wpc[w] = "recv"
    /\ jobs = <<>>
    /\ jobsClosed
    /\ wpc' = [wpc EXCEPT ![w] = "done"]
    /\ workerWG' = workerWG - 1
    /\ UNCHANGED <<cfg, o, mainpc, nextJob, jobs, jobsClosed, results, resultsClosed,
                   resultWG, wjob, wdata, cpc, hist, wh, rd, fx, mg>>

\* the body of the loop with the continue missing after "Skipping": the
\* tile is logged as dropped and a response is sent all the same
WorkerFetchNoContinue(w) ==
    /\ wpc[w] = "fetch"
    /\ \E resp \in SteadyFetch :
            \E ce \in Encodings(cfg.gzip), bodyErr \in BOOLEAN,
               body \in {OriginBody(wjob[w])} :
         LET r == httpWorkerBody(cfg.urlOK, cfg.gzip, resp, ce, bodyErr, body)
         IN  /\ wpc' = [wpc EXCEPT ![w] = "send"]
             /\ wdata' = [wdata EXCEPT ![w] = r.data]
             /\ hist' = IF r.send THEN hist
                        ELSE [hist EXCEPT !.drops[wjob[w]] = @ + 1]
             /\ UNCHANGED wjob
    /\ UNCHANGED <<cfg, o, mainpc, nextJob, jobs, jobsClosed, results, resultsClosed,
                   workerWG, resultWG, cpc, wh, rd, fx, mg>>

\* httpWorker: the body of the loop up to the send, or to the continue that
\* drops the tile
WorkerFetch(w) ==
    /\ wpc[w] = "fetch"
    /\ \E resp \in SteadyFetch :
            \E ce \in Encodings(cfg.gzip), bodyErr \in BOOLEAN,
               body \in {OriginBody(wjob[w])} :
         LET r == httpWorkerBody(cfg.urlOK, cfg.gzip, resp, ce, bodyErr, body)
         IN  IF r.send
             THEN /\ wpc' = [wpc EXCEPT ![w] = "send"]
                  /\ wdata' = [wdata EXCEPT ![w] = r.data]
                  /\ UNCHANGED <<wjob, hist>>
             ELSE /\ wpc' = [wpc EXCEPT ![w] = "recv"]
                  /\ hist' = [hist EXCEPT !.drops[wjob[w]] = @ + 1]
                  /\ wjob' = [wjob EXCEPT ![w] = 0]
                  /\ UNCHANGED wdata
    /\ UNCHANGED <<cfg, o, mainpc, nextJob, jobs, jobsClosed, results, resultsClosed,
                   workerWG, resultWG, cpc, wh, rd, fx, mg>>

\* the worker hands its tile to the writer itself instead of sending it
WorkerSendSaves(w) ==
    /\ wpc[w] = "send"
    /\ \E r \in Save(o, GenTile(wjob[w]), wdata[w], "none") : o' = r.o
    /\ hist' = [hist EXCEPT !.saves[wjob[w]] = @ + 1]
    /\ wpc' = [wpc EXCEPT ![w] = "recv"]
    /\ wjob' = [wjob EXCEPT ![w] = 0]
    /\ wdata' = [wdata EXCEPT ![w] = NoData]
    /\ UNCHANGED <<cfg, mainpc, nextJob, jobs, jobsClosed, results, resultsClosed,
                   workerWG, resultWG, cpc, wh, rd, fx, mg>>

\* httpWorker: results <- &TileResponse{...}
WorkerSend(w) ==
    /\ wpc[w] = "send"
    /\ Len(results) < QueueCap
    /\ results' = Append(results, [job |-> wjob[w], Tile |-> GenTile(wjob[w]),
                                   Data |-> wdata[w]])
    /\ wpc' = [wpc EXCEPT ![w] = "recv"]
    /\ wjob' = [wjob EXCEPT ![w] = 0]
    /\ wdata' = [wdata EXCEPT ![w] = NoData]
    /\ UNCHANGED <<cfg, o, mainpc, nextJob, jobs, jobsClosed, resultsClosed,
                   workerWG, resultWG, cpc, hist, wh, rd, fx, mg>>

\* the failures the storage layer may still produce in this run
BuildFaultsLeft == IF hist.faults < MaxFaults THEN FailPoints ELSE {"none"}

\* processResults: "for result := range results" receives a response and
\* hands it to processor.Save; an error of Save is logged and the loop goes
\* on.  hist.faults counts the Saves that returned an error of the storage
\* layer, hist.afterFault the Saves called after such a return.
ConsumerSave ==
    /\ cpc = "recv"
    /\ results # <<>>
    /\ \E fail \in BuildFaultsLeft :
         \E r \in Save(o, Head(results).Tile, Head(results).Data, fail) :
            /\ o' = r.o
            /\ hist' = [hist EXCEPT
                          !.saves[Head(results).job] = @ + 1,
                          !.faults = @ + (IF r.err \in StorageErrs THEN 1 ELSE 0),
                          !.afterFault = @ + (IF hist.faults > 0 THEN 1 ELSE 0)]
    /\ results' = Tail(results)
    /\ UNCHANGED <<cfg, mainpc, nextJob, jobs, jobsClosed, resultsClosed,
                   workerWG, resultWG, wpc, wjob, wdata, cpc, wh, rd, fx, mg>>

\* processResults: the range loop ends on the closed, empty channel;
\* processor.Close(); the deferred waitGroup.Done() runs
ConsumerClose ==
    /\ cpc = "recv"
    /\ results = <<>>
    /\ resultsClosed
    /\ o' = Close(o, "none", FALSE).o
    /\ cpc' = "done"
    /\ resultWG' = resultWG - 1
    /\ hist' = [hist EXCEPT !.closes = @ + 1]
    /\ UNCHANGED <<cfg, mainpc, nextJob, jobs, jobsClosed, results, resultsClosed,
                   workerWG, wpc, wjob, wdata, wh, rd, fx, mg>>

Main == MainEnqueue \/ MainCloseJobs \/ MainCloseResults \/ MainExit
httpWorker(w) == WorkerRecv(w) \/ WorkerFetch(w) \/ WorkerSend(w) \/ WorkerExit(w)
processResults == ConsumerSave \/ ConsumerClose

NextBuild ==
    \/ Main
    \/ \E w \in Workers : httpWorker(w)
    \/ processResults

SpecBuild == InitBuild /\ [][NextBuild]_vars

\* the scheduler runs a goroutine that can take a step: the run does not
\* stop while main, a worker or the consumer can step
FairBuild == SpecBuild /\ WF_vars(NextBuild)

(***************************************************************************)
(* SpecMerge: one run of cmd/merge, from the reading of the sources'       *)
(* metadata to the Close of the destination.                               *)
(***************************************************************************)
\* the batch size cmd/merge gives the destination writer
MergeBatchSize == 1000

min(a, b) == IF a <= b THEN a ELSE b
max(a, b) == IF a >= b THEN a ELSE b

\* orb.Bound: Union extends the bound by the corners of the other, unless the
\* other is empty
IsEmpty(b) == b.Min[1] > b.Max[1] \/ b.Min[2] > b.Max[2]
Extend(b, point) ==
    IF /\ b.Min[1] <= point[1] /\ point[1] <= b.Max[1]
       /\ b.Min[2] <= point[2] /\ point[2] <= b.Max[2]
    THEN b
    ELSE [Min |-> <<min(b.Min[1], point[1]), min(b.Min[2], point[2])>>,
          Max |-> <<max(b.Max[1], point[1]), max(b.Max[2], point[2])>>]
Union(b, other) == IF IsEmpty(other) THEN b ELSE Extend(Extend(b, other.Min), other.Max)

\* var outputBounds orb.Bound
ZeroBound == [Min |-> <<0, 0>>, Max |-> <<0, 0>>]

\* the metadata of the source archives: bounds, minzoom, maxzoom
SourceMetas ==
    {[bounds |-> [Min |-> <<-2, -1>>, Max |-> <<0, 1>>], minZoom |-> 0, maxZoom |-> 1],
     [bounds |-> [Min |-> <<-1, -2>>, Max |-> <<2, 0>>], minZoom |-> 1, maxZoom |-> 1],
     [bounds |-> [Min |-> <<-1, -2>>, Max |-> <<2, 0>>], minZoom |-> 0, maxZoom |-> 0]}

\* a row of the view tiles of a source archive
SourceRow(z, x, row, body) ==
    [zoom_level |-> z, tile_column |-> x, tile_row |-> row,
     tile_data |-> [enc |-> "raw", body |-> body]]

\* the rows of the view tiles of the source archives
SourceTiles ==
    {{SourceRow(1, 0, 0, "a")},
     {SourceRow(1, 0, 0, "b")},
     {SourceRow(1, 0, 1, "a")},
     {SourceRow(0, 0, 0, "a"), SourceRow(1, 1, 1, "b")},
     {}}

SourceArchives == {[meta |-> m, tiles |-> t] : m \in SourceMetas, t \in SourceTiles}

\* flag.Args(): one to MaxSources input archives
MergeInputs == UNION {[1 .. n -> SourceArchives] : n \in 1 .. MaxSources}

\* Metadata() of a reader and its Bounds(), MinZoom(), MaxZoom(): what the
\* metadata table of the source holds
Metadata(archive) == archive.meta

\* data := []byte{} of VisitAllTiles
EmptyData == [enc |-> "raw", body |-> ""]

InitMergeWith(faulty, inputs) ==
    /\ cfg \in {c \in Configs : c.workers = 1 /\ ~c.gzip /\ c.urlOK /\ ~c.invertedY}
    /\ o = NewMbtilesOutputter(MergeBatchSize, ZeroBound, 0, 0)
    /\ PipelineOff
    /\ wh = NoSession
    /\ rd = NoRead
    /\ fx = NoFetch
    /\ \E in \in inputs :
         mg = [pc |-> "meta", inputs |-> in, i |-> 1,
               outputBounds |-> ZeroBound, outputMinZoom |-> 0, outputMaxZoom |-> 0,
               rest |-> {}, zxy |-> [Z |-> 0, X |-> 0, Y |-> 0],
               faulty |-> faulty, faults |-> 0, saves |-> 0, afterFault |-> 0,
               saveErrs |-> 0]

InitMerge == InitMergeWith(FALSE, MergeInputs)

\* the loop over the inputs that always assigns the bounds of the input
MergeReadMetadataNoUnion ==
    /\ mg.pc = "meta"
    /\ LET md == Metadata(mg.inputs[mg.i])
       IN  mg' = [mg EXCEPT
                    !.outputBounds = md.bounds,
                    !.outputMinZoom = min(mg.outputMinZoom, md.minZoom),
                    !.outputMaxZoom = min(mg.outputMaxZoom, md.maxZoom),
                    !.i = IF mg.i < Len(mg.inputs) THEN mg.i + 1 ELSE 1,
                    !.pc = IF mg.i < Len(mg.inputs) THEN "meta" ELSE "create"]
    /\ UNCHANGED <<cfg, o, wh, rd, fx>>
    /\ UNCHANGED pvars

\* one iteration of "for i, inputFilename := range inputFilenames"
MergeReadMetadata ==
    /\ mg.pc = "meta"
    /\ LET md == Metadata(mg.inputs[mg.i])
       IN  mg' = [mg EXCEPT
                    !.outputBounds = IF mg.i = 1 THEN md.bounds
                                     ELSE Union(mg.outputBounds, md.bounds),
                    !.outputMinZoom = min(mg.outputMinZoom, md.minZoom),
                    !.outputMaxZoom = min(mg.outputMaxZoom, md.maxZoom),
                    !.i = IF mg.i < Len(mg.inputs) THEN mg.i + 1 ELSE 1,
                    !.pc = IF mg.i < Len(mg.inputs) THEN "meta" ELSE "create"]
    /\ UNCHANGED <<cfg, o, wh, rd, fx>>
    /\ UNCHANGED pvars

\* NewMbtilesOutputter(...); CreateTiles(); the first VisitAllTiles starts
MergeCreate ==
    /\ mg.pc = "create"
    /\ o' = CreateTiles(NewMbtilesOutputter(MergeBatchSize, mg.outputBounds,
                                            mg.outputMinZoom, mg.outputMaxZoom),
                        "none").o
    /\ mg' = [mg EXCEPT !.pc = "visit", !.rest = mg.inputs[1].tiles]
    /\ UNCHANGED <<cfg, wh, rd, fx>>
    /\ UNCHANGED pvars

\* the failures the storage layer may still produce in this run
MergeFaultsLeft ==
    IF mg.faulty /\ mg.faults < MaxFaults THEN FailPoints ELSE {"none"}

\* one iteration of the loop of VisitAllTiles: rows.Next(), rows.Scan, and
\* the visitor, which calls Save and drops what it returns. A Scan that fails
\* is logged and the visitor is called all the same, with z, x, y as the
\* last row left them and the fresh data.
MergeVisit ==
    /\ mg.pc = "visit"
    /\ \E row \in mg.rest, fail \in MergeFaultsLeft,
          scanErr \in {f \in BOOLEAN : f => (mg.faulty /\ mg.faults < MaxFaults)} :
         LET t == IF scanErr THEN mg.zxy
                  ELSE [Z |-> row.zoom_level, X |-> row.tile_column, Y |-> row.tile_row]
             data == IF scanErr THEN EmptyData ELSE row.tile_data
             failNow == IF scanErr THEN "none" ELSE fail
             before == mg.faults + (IF scanErr THEN 1 ELSE 0)
         IN  \E r \in Save(o, t, data, failNow) :
                /\ o' = r.o
                /\ mg' = [mg EXCEPT
                            !.rest = mg.rest \ {row},
                            !.zxy = t,
                            !.saves = @ + 1,
                            !.saveErrs = @ + (IF r.err # "nil" THEN 1 ELSE 0),
                            !.afterFault = @ + (IF before > 0 THEN 1 ELSE 0),
                            !.faults = before + (IF r.err \in StorageErrs THEN 1 ELSE 0)]
    /\ UNCHANGED <<cfg, wh, rd, fx>>
    /\ UNCHANGED pvars

\* VisitAllTiles returns nil; mbtilesReader.Close(); the next input
MergeNextSource ==
    /\ mg.pc = "visit"
    /\ mg.rest = {}
    /\ mg' = IF mg.i < Len(mg.inputs)
             THEN [mg EXCEPT !.i = mg.i + 1, !.rest = mg.inputs[mg.i + 1].tiles]
             ELSE [mg EXCEPT !.pc = "close"]
    /\ UNCHANGED <<cfg, o, wh, rd, fx>>
    /\ UNCHANGED pvars

\* outputMbtiles.Close(); main returns
MergeClose ==
    /\ mg.pc = "close"
    /\ o' = Close(o, "none", FALSE).o
    /\ mg' = [mg EXCEPT !.pc = "done"]
    /\ UNCHANGED <<cfg, wh, rd, fx>>
    /\ UNCHANGED pvars

NextMerge ==
    \/ MergeReadMetadata
    \/ MergeCreate
    \/ MergeVisit
    \/ MergeNextSource
    \/ MergeClose

SpecMerge == InitMerge /\ [][NextMerge]_vars

\* the same run with a storage layer and row scans of which up to MaxFaults
\* fail
InitMergeFaulty ==
    InitMergeWith(TRUE, {in \in MergeInputs :
                           \A k \in 1 .. Len(in) : in[k].meta.minZoom = 1})

SpecMergeFaulty == InitMergeFaulty /\ [][NextMerge]_vars

(***************************************************************************)
(* Properties of the build pipeline.                                       *)
(***************************************************************************)
RECURSIVE SumTo(_, _)
SumTo(f, n) == IF n = 0 THEN 0 ELSE f[n] + SumTo(f, n - 1)

AllExited ==
    /\ mainpc = "done"
    /\ cpc = "done"
    /\ \A w \in Workers : wpc[w] = "done"

\* C1: every job the generator enqueued is received by exactly one worker
\* and ends either handed once to Save by the consumer or dropped once by
\* its worker, never both; when main returns no enqueued job is in neither
\* group.
C1_NoTileLost ==
    \A j \in Jobs :
        /\ hist.taken[j] <= 1
        /\ hist.saves[j] + hist.drops[j] <= 1
        /\ hist.saves[j] + hist.drops[j] = 1 => hist.taken[j] = 1
        /\ hist.taken[j] = 1 => j < nextJob
        /\ (mainpc = "done" /\ j < nextJob) =>
              (hist.taken[j] = 1 /\ hist.saves[j] + hist.drops[j] = 1)

C1_Witness ==
    /\ mainpc = "done"
    /\ nextJob = MaxJobs + 1
    /\ \E j \in Jobs : hist.saves[j] = 1
    /\ \E j \in Jobs : hist.drops[j] = 1

\* C2: the jobs channel is closed only after the last job was enqueued; the
\* results channel is closed only after every worker exited, and nothing
\* is sent on it afterwards; Close of the writer is called once, on the
\* closed and empty results channel; no Save follows Close.
C2_ShutdownOrder ==
    /\ [](/\ jobsClosed => nextJob > MaxJobs
          /\ resultsClosed => \A w \in Workers : wpc[w] = "done"
          /\ hist.closes <= 1
          /\ hist.closes = 1 => (resultsClosed /\ results = <<>>)
          /\ mainpc = "done" => hist.closes = 1)
    /\ [][/\ resultsClosed => Len(results') <= Len(results)
          /\ hist'.closes > hist.closes => (resultsClosed /\ results = <<>>)
          /\ hist.closes >= 1 => hist'.saves = hist.saves]_vars

C2_Witness ==
    /\ mainpc = "done"
    /\ hist.closes = 1
    /\ \E j \in Jobs : hist.saves[j] = 1

\* C3: under weak fairness (a run does not stop while some goroutine can
\* step) the run ends with main, every worker and the consumer exited,
\* whatever the fetches give; a state in which nothing can step is the state
\* where all have exited.
C3_Terminates ==
    /\ <>AllExited
    /\ [](ENABLED NextBuild \/ AllExited)

C3_Witness ==
    /\ AllExited
    /\ cfg.workers = MaxWorkers
    /\ \A j \in Jobs : hist.drops[j] = 1

\* C4: neither channel holds more than its capacity; the producer can
\* enqueue exactly when the jobs channel has room, so with no job received it
\* blocks after QueueCap jobs and is enabled again once a worker received
\* one; a worker with a result can send exactly when the results channel has
\* room.
C4_Backpressure ==
    /\ Len(jobs) <= QueueCap
    /\ Len(results) <= QueueCap
    /\ (mainpc = "generate" /\ nextJob <= MaxJobs) =>
          /\ ENABLED MainEnqueue <=> Len(jobs) < QueueCap
          /\ (~ENABLED MainEnqueue /\ SumTo(hist.taken, MaxJobs) = 0) =>
                nextJob - 1 = QueueCap
    /\ \A w \in Workers :
          wpc[w] = "send" => (ENABLED WorkerSend(w) <=> Len(results) < QueueCap)

C4_Witness ==
    /\ mainpc = "generate"
    /\ nextJob <= MaxJobs
    /\ Len(jobs) = QueueCap
    /\ nextJob - 1 = QueueCap
    /\ SumTo(hist.taken, MaxJobs) = 0

(***************************************************************************)
(* Properties of the writer and the reader.                                *)
(***************************************************************************)
\* the rows of map a session with an open handle wrote for tile (Z, X)
RowsAt(tile) ==
    {r \in CurTables(o).map : r.zoom_level = tile.Z /\ r.tile_column = tile.X}

\* C5: a tile saved without error and read back, after Close returned
\* without error, through GetTile of a reader gives the bytes saved.
C5_RoundTrip ==
    (/\ rd.done
     /\ wh.closes = 1 /\ wh.closeErr = "nil"
     /\ wh.faults = 0
     /\ wh.saved[rd.tile] # NoData)
    => rd.data = wh.saved[rd.tile]

\* C6: after two Saves of different tiles with the same bytes the images
\* table has one row and the map table two rows with the same tile_id.
C6_Dedup ==
    (/\ wh.n = 2
     /\ wh.closes = 0
     /\ wh.faults = 0
     /\ wh.first.tile # wh.last.tile
     /\ wh.first.data = wh.last.data)
    => /\ Cardinality(CurTables(o).images) = 1
       /\ Cardinality(CurTables(o).map) = 2
       /\ \A r \in CurTables(o).map : r.tile_id = TileID(wh.first.data)

\* C7: after n >= 1 Saves of the same (tile, bytes), the first of which
\* succeeded, the tables hold one map row and one images row for the tile
\* and are the tables the first Save left.
C7_Idempotent ==
    (/\ wh.n >= 1
     /\ wh.same
     /\ wh.faults = 0
     /\ wh.first.err = "nil")
    => /\ Cardinality(CurTables(o).map) = 1
       /\ Cardinality(RowsAt(wh.first.tile)) = 1
       /\ Cardinality(CurTables(o).images) = 1
       /\ \A r \in CurTables(o).map : r.tile_id = TileID(wh.first.data)
       /\ \A r \in CurTables(o).images :
             r.tile_id = TileID(wh.first.data) /\ r.tile_data = wh.first.data
       /\ CurTables(o) = wh.firstTables

C7_Witness ==
    /\ wh.n >= 2
    /\ wh.same
    /\ wh.faults = 0
    /\ wh.first.err = "nil"
    /\ wh.closes = 0

\* C8: the metadata rows are written by the first Save only: a later Save
\* executes no INSERT INTO metadata, is not failed by the metadata step and
\* leaves the metadata table as it was.
C8_MetadataOnce ==
    /\ [](wh.metaSaves <= 1)
    /\ [][(/\ wh'.n = wh.n + 1
           /\ wh.n >= 1
           /\ wh.first.err = "nil"
           /\ wh'.faults = 0
           /\ o.db = "open")
          => /\ wh'.last.metaTried = 0
             /\ wh'.last.step # "metadata"
             /\ o'.metadata = o.metadata]_vars

C10_TerminalStatus ==
    (/\ fx.pc = "done"
     /\ cfg.urlOK
     /\ fx.script[1] \notin {200, NetErr}
     /\ ~(fx.script[1] >= 500 /\ fx.script[1] < 600))
    => (fx.out.attempts = 1 /\ ~fx.out.send)

\* the 5xx statuses among the answers of the targets
ServerErrors == {st \in Outcomes : st >= 500 /\ st <= 599}

\* C11: a target answering a 5xx status on its first k < 30 attempts and 200
\* on attempt k+1 gives the 200 response after k+1 attempts (k retries); a
\* network error on an attempt ends the fetch there as a failure.
C11_RetryUntil200 ==
    (fx.pc = "done" /\ cfg.urlOK)
    => /\ \A st \in ServerErrors, k \in 0 .. nRetries - 1 :
            fx.script = RunScript(st, k, 200)
            => /\ fx.out.attempts = k + 1
               /\ fx.out.log # "Skipping"
               /\ ~fx.bodyErr => (fx.out.send /\ fx.out.data.body = fx.body)
       /\ \A j \in 1 .. Len(fx.script) :
            (/\ j <= nRetries
             /\ fx.script[j] = NetErr
             /\ \A i \in 1 .. j - 1 : fx.script[i] \notin {200, NetErr})
            => /\ fx.out.attempts = j
               /\ ~fx.out.send
               /\ fx.out.log = "Skipping"

C11_Witness ==
    /\ fx.pc = "done"
    /\ cfg.urlOK
    /\ fx.script = RunScript(500, nRetries - 1, 200)
    /\ fx.out.attempts = nRetries
    /\ fx.out.send

\* the wait the retry policy prescribes before the i-th retry, in ms
RECURSIVE Backoff(_)
Backoff(i) ==
    IF i = 1 THEN 500
    ELSE IF 2 * Backoff(i - 1) > 30000 THEN 30000 ELSE 2 * Backoff(i - 1)

\* C12: in a fetch whose target answers one 5xx status until its last answer,
\* every retry is preceded by a wait, the wait before the i-th retry is
\* min(500 ms * 2^(i-1), 30 s), and no more than 30 attempts are made.
C12_Backoff ==
    (fx.pc = "done" /\ cfg.urlOK)
    => /\ fx.out.attempts <= 30
       /\ \A st \in ServerErrors, k \in 0 .. nRetries, last \in Outcomes :
            fx.script = RunScript(st, k, last)
            => /\ Len(fx.out.waits) >= fx.out.attempts - 1
               /\ \A i \in 1 .. fx.out.attempts - 1 : fx.out.waits[i] = Backoff(i)

(***************************************************************************)
(* Error handling of the build run.                                        *)
(***************************************************************************)
\* C13: once a Save has returned an error of the storage layer, no later
\* result is passed to Save and main does not return normally.
C13_StorageErrorFatal ==
    hist.faults >= 1 => (hist.afterFault = 0 /\ mainpc # "done")

\* C20: from the start of the goroutines on, a step in which an operation of
\* the writer is called (a Save, the Close) or the writer changes is a step
\* of processResults alone: it takes the head of results or ends the
\* consumer, and no worker and not main moves in it.
C20_SingleWriter ==
    [][(o' # o \/ hist'.saves # hist.saves \/ hist'.closes # hist.closes)
       => /\ cpc = "recv"
          /\ \/ (results # <<>> /\ results' = Tail(results) /\ cpc' = "recv")
             \/ (results = <<>> /\ cpc' = "done")
          /\ wpc' = wpc
          /\ mainpc' = mainpc]_vars

C20_Witness ==
    /\ cfg.workers = MaxWorkers
    /\ \E j \in Jobs : hist.saves[j] = 1
    /\ \E w \in Workers : wpc[w] = "send"
    /\ \E w \in Workers : wpc[w] = "fetch"

(***************************************************************************)
(* Properties of the writer on a storage layer that may fail.              *)
(***************************************************************************)
\* C14: Close returns the first error of its two steps: the error of the
\* commit when the commit fails, else the error of closing the handle, and
\* no error when neither fails.
C14_CloseFirstError ==
    wh.closes = 1
    => wh.closeErr = (IF wh.closeCommit # "nil" THEN wh.closeCommit ELSE wh.closeDb)

\* C19: between the calls of a session the writer has no transaction and a
\* save counter of 0, or an open transaction and a counter from 1 to B-1,
\* whether the Saves returned errors or not; a Save commits exactly when it
\* is the B-th successful Save of its batch, and leaves no transaction then.
C19_TxnStateMachine ==
    /\ [](wh.closes = 0
          => \/ (o.txn = "nil" /\ o.batchCount = 0)
             \/ (o.txn = "open" /\ 1 <= o.batchCount /\ o.batchCount < o.batchSize))
    /\ [][(wh'.n = wh.n + 1)
          => ((o'.com # o.com \/ (o'.txn = "nil" /\ o.txn # "nil"))
              <=> (wh'.last.err = "nil" /\ o.batchCount = o.batchSize - 1))]_vars

\* the tables of the archive file and the tables the transaction sees
BothTables == {o.com, o.tx}

\* C22: in every state of a session, failed Saves included, every row of map
\* has a tile_id that is the tile_id of a row of images, in the committed
\* tables and in those of the transaction, so the view tiles has a row for
\* every coordinate of map.
C22_NoDanglingTileID ==
    \A t \in BothTables :
        /\ \A r \in t.map : \E i \in t.images : i.tile_id = r.tile_id
        /\ Coords(TilesView(t)) = Coords(t.map)

C22_Witness ==
    /\ wh.faults >= 1
    /\ wh.closes = 1
    /\ o.com.map # {}
    /\ Coords(TilesView(o.com)) = Coords(o.com.map)

(***************************************************************************)
(* Properties of the merge.                                                *)
(***************************************************************************)
\* the destination writer exists
MergeCreated == mg.pc \in {"visit", "close", "done"}

Sources == {mg.inputs[k] : k \in 1 .. Len(mg.inputs)}

MetaRow(name) == {r \in o.metadata : r.name = name}

\* C15: the destination is created with minzoom the least of the sources'
\* minzoom and maxzoom the greatest of the sources' maxzoom, and its
\* metadata rows say so.
C15_ZoomRange ==
    MergeCreated
    => LET lo == CHOOSE z \in {a.meta.minZoom : a \in Sources} :
                     \A a \in Sources : z <= a.meta.minZoom
           hi == CHOOSE z \in {a.meta.maxZoom : a \in Sources} :
                     \A a \in Sources : z >= a.meta.maxZoom
       IN  /\ o.minZoom = lo
           /\ o.maxZoom = hi
           /\ \A r \in MetaRow("minzoom") : r.value = <<"%d", lo>>
           /\ \A r \in MetaRow("maxzoom") : r.value = <<"%d", hi>>

\* the least bound that holds every source's bounds
SourcesBounds ==
    LET pick(S, least) == CHOOSE v \in S : \A w \in S : IF least THEN v <= w ELSE v >= w
    IN  [Min |-> <<pick({a.meta.bounds.Min[1] : a \in Sources}, TRUE),
                   pick({a.meta.bounds.Min[2] : a \in Sources}, TRUE)>>,
         Max |-> <<pick({a.meta.bounds.Max[1] : a \in Sources}, FALSE),
                   pick({a.meta.bounds.Max[2] : a \in Sources}, FALSE)>>]

\* C16: the destination is created with the union of the sources' bounds
\* (west, south the least, east, north the greatest), and its metadata row
\* bounds holds that union.
C16_BoundsUnion ==
    MergeCreated
    => /\ o.bounds = SourcesBounds
       /\ \A r \in MetaRow("bounds") :
             r.value = <<"%f,%f,%f,%f", SourcesBounds.Min[1], SourcesBounds.Min[2],
                         SourcesBounds.Max[1], SourcesBounds.Max[2]>>

C16_Witness ==
    /\ mg.pc = "done"
    /\ Len(mg.inputs) >= 2
    /\ MetaRow("bounds") # {}
    /\ \A a \in Sources : a.meta.bounds # SourcesBounds

\* C17: once a Save into the destination or the scan of a source row has
\* failed, no later tile is saved and the merge does not end normally.
C17_MergeAborts ==
    mg.pc \in {"visit", "close", "done"} /\ mg.faults >= 1
    => (mg.afterFault = 0 /\ mg.pc # "done")

\* C18: after a merge that completes the destination's coordinates are the
\* union of the sources' coordinates, and each holds the content the last
\* source having that coordinate holds for it.
C18_MergeUnion ==
    (mg.pc = "done" /\ mg.faults = 0)
    => LET all == UNION {Coords(a.tiles) : a \in Sources}
           dest == TilesView(o.com)
       IN  /\ Coords(o.com.map) = all
           /\ \A c \in all :
                LET k == CHOOSE k \in 1 .. Len(mg.inputs) :
                            /\ c \in Coords(mg.inputs[k].tiles)
                            /\ \A j \in k + 1 .. Len(mg.inputs) :
                                  c \notin Coords(mg.inputs[j].tiles)
                IN  \A r \in dest :
                       Coords({r}) = {c}
                       => \E s \in mg.inputs[k].tiles :
                             Coords({s}) = {c} /\ s.tile_data = r.tile_data
           /\ Cardinality(o.com.images) =
                 Cardinality({r.tile_data : r \in UNION {a.tiles : a \in Sources}})

(***************************************************************************)
(* Resources of the workers.                                               *)
(***************************************************************************)
\* C21: when an iteration of the worker loop ends, by the send or by a
\* continue, every response the worker received in it has had its body
\* closed.
C21_BodiesClosed ==
    fx.pc = "done" => fx.out.unclosed = 0

====
